---- MODULE Spec2Model ----
(***************************************************************************)
(* Numainda RAG pipeline: query-intent classification, similarity          *)
(* retrieval, the chat route that assembles the grounding context, and     *)
(* the two PDF ingestion scripts (ingest-pdf, batch-ingest).                *)
(***************************************************************************)
EXTENDS Integers, Sequences, FiniteSets, TLC

VARIABLES
    chatPc,       \* position of one POST /api/chat request
    modelCall,    \* outcome of the classifier's generateText call: "returns" | "throws"
    analysis,     \* text returned by the classifier model, as a sequence of JSON tokens
    queryTypes,   \* value returned by detectQueryTypes
    embeddings,   \* table embeddings: rows in insertion order
    representativeEmbeddings,  \* table representative_embeddings, in insertion order
    found,        \* the last retriever call made on its own, and what it returned
    chatQuery,    \* lastMessage.content of the chat request
    searches,     \* searchPromises: the state of each retriever call of the request
    invoked,      \* number of calls the request has made of each retriever
    searchData,   \* the rows each fulfilled retriever call returned
    contextString, \* the context handed to streamText
    documents,    \* table documents: rows in insertion order
    bills,        \* table bills
    proceedings,  \* table parliamentary proceedings
    ing,          \* per ingestion process: the state of its ingestDocument call
    runs,         \* number of ingestDocument calls started so far
    docText,      \* the text handed to splitter.createDocuments, as runs of characters
    ck,           \* the state of the splitter's call
    representatives,  \* table representatives: the ids of its rows
    gen,          \* the state of a run of the representative-embedding generator
    geo,          \* the state of a run of the geocoding script
    batch,        \* the state of batch-ingest's main
    embedFailed   \* files of which an ingestion has failed at the Embedding step

classifyVars == <<chatPc, modelCall, analysis, queryTypes>>
storeVars == <<embeddings, representativeEmbeddings>>
searchVars == <<chatQuery, searches, invoked, searchData, contextString>>
chunkVars == <<docText, ck>>
scriptVars == <<representatives, gen, geo, batch>>
ingestVars == <<documents, bills, proceedings, ing, runs, embedFailed, chunkVars,
                scriptVars>>
vars == <<chatPc, modelCall, analysis, queryTypes, embeddings,
          representativeEmbeddings, found, chatQuery, searches, invoked,
          searchData, contextString, documents, bills, proceedings, ing, runs, embedFailed,
          docText, ck, representatives, gen, geo, batch>>

(***************************************************************************)
(* Bounds                                                                  *)
(***************************************************************************)
MaxTokens == 5
MaxRows == 7
MaxChatRows == 1
MaxChunks == 6
MaxRuns == 2
NumWorkers == 2

(***************************************************************************)
(* Small helpers                                                           *)
(***************************************************************************)
SeqsUpTo(S, n) == UNION {[1..k -> S] : k \in 0..n}

RECURSIVE Flatten(_)
Flatten(ss) == IF ss = <<>> THEN <<>> ELSE Head(ss) \o Flatten(Tail(ss))

Range(f) == {f[x] : x \in DOMAIN f}

\* the two retriever calls a chat request can make
Retrievers == {"representative", "document"}

\* no chat request has built its searchPromises
NoSearch ==
    /\ chatQuery = "none"
    /\ searches = [r \in Retrievers |-> "none"]
    /\ invoked = [r \in Retrievers |-> 0]
    /\ searchData = [r \in Retrievers |-> <<>>]
    /\ contextString = <<>>

\* the ingestion processes, and the state of one that is not ingesting
Workers == 1..NumWorkers
IdleIngest ==
    [pc |-> "idle", entry |-> "none", file |-> "none", type |-> "none",
     skipExisting |-> FALSE, run |-> 0, docId |-> 0, chunks |-> 0, i |-> 0,
     pending |-> {}, started |-> <<>>, delays |-> 0, embeddingsArray |-> <<>>,
     summaryCall |-> "none", summary |-> "none", steps |-> <<>>,
     error |-> "none"]

\* no script other than ingestion is running
IdleGenerator ==
    [pc |-> "idle", run |-> 0, reps |-> <<>>, existingIds |-> {}, i |-> 0,
     pending |-> {}, inserting |-> {}, processed |-> 0, errors |-> {},
     inserted |-> {}, exit |-> -1]

IdleGeocoder ==
    [pc |-> "idle", reps |-> <<>>, i |-> 0, strategy |-> 0, now |-> 0,
     sent |-> <<>>, delayFrom |-> 0, result |-> "none", geocoded |-> 0,
     failed |-> 0, updated |-> {}, exit |-> -1]

IdleMain ==
    [pc |-> "idle", entry |-> "none", pdfFiles |-> <<>>, type |-> "none",
     skipExisting |-> FALSE, dryRun |-> FALSE, i |-> 0, attempts |-> <<>>,
     processed |-> 0, skipped |-> 0, failed |-> 0, exit |-> -1]

NoScripts ==
    /\ representatives = {}
    /\ gen = IdleGenerator
    /\ geo = IdleGeocoder
    /\ batch = IdleMain

\* the splitter has not been called
IdleSplitter ==
    [pc |-> "idle", stack |-> <<>>, docs |-> <<>>, pos |-> 0, cur |-> 0, mto |-> 0,
     metadata |-> <<>>]
NoChunking ==
    /\ docText = <<>>
    /\ ck = IdleSplitter

\* no ingestion has run: the tables it writes are empty
NoIngest ==
    /\ NoChunking
    /\ NoScripts
    /\ documents = <<>>
    /\ bills = <<>>
    /\ proceedings = <<>>
    /\ ing = [w \in Workers |-> IdleIngest]
    /\ runs = 0
    /\ embedFailed = {}

(***************************************************************************)
(* Query intent classifier (lib/ai/embedding.ts, detectQueryTypes)         *)
(*                                                                         *)
(* The model's text is a sequence of JSON tokens.  A word token stands for *)
(* the JSON string literal of that word, "[" "]" "," are punctuation.      *)
(***************************************************************************)
ValidTypes == {"representative", "bill", "document"}
StringTokens == ValidTypes \cup {"other"}
Tokens == StringTokens \cup {"[", "]", ","}

\* JSON.parse, by recursive descent.  A parsed value is
\* [k |-> "str", v |-> word] or [k |-> "arr", v |-> <<values>>].
RECURSIVE ParseValue(_)
RECURSIVE ParseElements(_, _)
ParseValue(ts) ==
    IF ts = <<>> THEN [ok |-> FALSE]
    ELSE IF Head(ts) \in StringTokens
         THEN [ok |-> TRUE, val |-> [k |-> "str", v |-> Head(ts)], rest |-> Tail(ts)]
    ELSE IF Head(ts) = "["
         THEN IF Tail(ts) # <<>> /\ Head(Tail(ts)) = "]"
              THEN [ok |-> TRUE, val |-> [k |-> "arr", v |-> <<>>], rest |-> Tail(Tail(ts))]
              ELSE ParseElements(Tail(ts), <<>>)
    ELSE [ok |-> FALSE]

\* after "[" or ",": one value, then "," (more) or "]" (end of the array)
ParseElements(ts, acc) ==
    LET e == ParseValue(ts) IN
    IF ~e.ok THEN [ok |-> FALSE]
    ELSE IF e.rest = <<>> THEN [ok |-> FALSE]
    ELSE IF Head(e.rest) = ","
         THEN ParseElements(Tail(e.rest), Append(acc, e.val))
    ELSE IF Head(e.rest) = "]"
         THEN [ok |-> TRUE, val |-> [k |-> "arr", v |-> Append(acc, e.val)],
               rest |-> Tail(e.rest)]
    ELSE [ok |-> FALSE]

\* JSON.parse(text): throws (ok = FALSE) unless the whole text is one value
JSONParse(ts) ==
    LET r == ParseValue(ts) IN
    IF r.ok /\ r.rest = <<>> THEN [ok |-> TRUE, val |-> r.val] ELSE [ok |-> FALSE]

\* a filter that lets every string through
KeepAnyString(e) == e.k = "str"

\* the filter predicate of detectQueryTypes
IsValidType(e) == e.k = "str" /\ e.v \in ValidTypes

\* try { parse; validate; return valid } catch {}; return ['document']
ParseQueryTypes(text) ==
    LET parsed == JSONParse(text) IN
    IF parsed.ok /\ parsed.val.k = "arr" /\ Len(parsed.val.v) > 0
    THEN LET valid == SelectSeq(parsed.val.v, IsValidType) IN
         IF Len(valid) > 0
         THEN [i \in 1..Len(valid) |-> valid[i].v]
         ELSE <<"document">>
    ELSE <<"document">>

\* detectQueryTypes: the generateText call is awaited outside the try block,
\* so a throwing call rejects the whole function.
DetectQueryTypes ==
    /\ chatPc = "classify"
    /\ IF modelCall = "throws"
       THEN /\ chatPc' = "rejected"
            /\ UNCHANGED queryTypes
       ELSE /\ chatPc' = "classified"
            /\ queryTypes' = ParseQueryTypes(analysis)
    /\ UNCHANGED <<modelCall, analysis, storeVars, found, searchVars, ingestVars>>

(***************************************************************************)
(* Vector store and similarity retrievers (lib/ai/embedding.ts)            *)
(*                                                                         *)
(* An embedding is one of Vecs, a query one of Queries; the cosine         *)
(* distance between them is given in hundredths.                           *)
(***************************************************************************)
Vecs == {"a", "b", "c"}
Queries == {"q1", "q2"}

CosineDistance(vec, q) ==
    IF q = "q1"
    THEN CASE vec = "a" -> 18 [] vec = "b" -> 25 [] OTHER -> 40
    ELSE CASE vec = "a" -> 30 [] vec = "b" -> 10 [] OTHER -> 18

\* sql`1 - (cosineDistance(embedding, queryEmbedding))`, in hundredths
Similarity(vec, q) == 100 - CosineDistance(vec, q)

ContentThreshold == 75
ContentLimit == 6
RepresentativeThreshold == 70
RepresentativeLimit == 5

\* ORDER BY names the similarity alone: the order of two rows of equal
\* similarity is the executor's, here the heap's order or its reverse.
TieOrders == {"heap", "reverse"}

Min(a, b) == IF a < b THEN a ELSE b

\* a WHERE clause that lets every row through
WhereAll(rows, q, threshold) == 1..Len(rows)

\* a filter that keeps a row at the threshold
WhereAtLeast(rows, q, threshold) ==
    {i \in 1..Len(rows) : Similarity(rows[i].vec, q) >= threshold}

\* .where(gt(similarity, threshold)): the positions of the rows kept
Where(rows, q, threshold) ==
    {i \in 1..Len(rows) : Similarity(rows[i].vec, q) > threshold}

\* .orderBy(desc(similarity)) over the kept positions
OrderByDesc(rows, kept, q, tie) ==
    LET sim(i) == Similarity(rows[i].vec, q)
        before(i, j) == \/ sim(i) > sim(j)
                        \/ /\ sim(i) = sim(j)
                           /\ IF tie = "heap" THEN i < j ELSE i > j
        rank(i) == Cardinality({j \in kept : before(j, i)}) + 1
    IN [k \in 1..Cardinality(kept) |-> CHOOSE i \in kept : rank(i) = k]

\* a LIMIT that is not applied
NoLimit(order, n) == order

\* .limit(n)
Limit(order, n) == SubSeq(order, 1, Min(n, Len(order)))

\* the rows a SELECT returns: position in the table and similarity
Select(rows, q, threshold, n, tie) ==
    LET order == Limit(OrderByDesc(rows, Where(rows, q, threshold), q, tie), n)
    IN [k \in 1..Len(order) |->
            [pos |-> order[k],
             resourceId |-> rows[order[k]].resourceId,
             similarity |-> Similarity(rows[order[k]].vec, q)]]

findRelevantContent(q, tie) ==
    Select(embeddings, q, ContentThreshold, ContentLimit, tie)

findRelevantRepresentatives(q, tie) ==
    Select(representativeEmbeddings, q, RepresentativeThreshold,
           RepresentativeLimit, tie)

NoneFound == [table |-> "none", q |-> "none", rows |-> <<>>]

FindRelevantContent ==
    \E q \in Queries, tie \in TieOrders :
        /\ found = NoneFound
        /\ found' = [table |-> "embeddings", q |-> q,
                     rows |-> findRelevantContent(q, tie)]
        /\ UNCHANGED <<classifyVars, storeVars, searchVars, ingestVars>>

FindRelevantRepresentatives ==
    \E q \in Queries, tie \in TieOrders :
        /\ found = NoneFound
        /\ found' = [table |-> "representative_embeddings", q |-> q,
                     rows |-> findRelevantRepresentatives(q, tie)]
        /\ UNCHANGED <<classifyVars, storeVars, searchVars, ingestVars>>

(***************************************************************************)
(* Specification of the retrievers alone: every content of the two tables  *)
(* of at most MaxRows rows in all, then one retriever call.                *)
(***************************************************************************)
MkRows(vs) ==
    [i \in 1..Len(vs) |-> [resourceId |-> 1, chunk |-> i, vec |-> vs[i]]]

InitRetrieve ==
    /\ chatPc = "idle"
    /\ modelCall = "returns"
    /\ analysis = <<>>
    /\ queryTypes = <<>>
    /\ \E n \in 0..MaxRows :
         /\ embeddings \in {MkRows(vs) : vs \in [1..n -> Vecs]}
         /\ representativeEmbeddings \in
                {MkRows(vs) : vs \in SeqsUpTo(Vecs, MaxRows - n)}
    /\ found = NoneFound
    /\ NoSearch
    /\ NoIngest

NextRetrieve == FindRelevantContent \/ FindRelevantRepresentatives

SpecRetrieve == InitRetrieve /\ [][NextRetrieve]_vars

(***************************************************************************)
(* Claims about the retrievers, read off the last call `found`.            *)
(***************************************************************************)
FoundRows ==
    IF found.table = "embeddings" THEN embeddings ELSE representativeEmbeddings
FoundThreshold ==
    IF found.table = "embeddings" THEN 75 ELSE 70
FoundLimit ==
    IF found.table = "embeddings" THEN 6 ELSE 5
\* similarity of the stored row at position i to the query of the last call
StoredSimilarity(i) == Similarity(FoundRows[i].vec, found.q)
ReturnedPositions == {found.rows[k].pos : k \in 1..Len(found.rows)}

(***************************************************************************)
(* C8: no record returned by findRelevantContent has similarity below      *)
(* 0.75 and none returned by findRelevantRepresentatives has similarity    *)
(* below 0.70, however few records pass.                                   *)
(***************************************************************************)
C8_NoneBelowThreshold ==
    found.table # "none" =>
        \A k \in 1..Len(found.rows) :
            /\ found.rows[k].pos \in 1..Len(FoundRows)
            /\ StoredSimilarity(found.rows[k].pos) >= FoundThreshold
            /\ found.rows[k].similarity = StoredSimilarity(found.rows[k].pos)

\* a call on a non-empty table whose rows are all below the threshold
\* returned nothing
C8_Witness ==
    /\ found.table = "representative_embeddings"
    /\ Len(representativeEmbeddings) >= 2
    /\ \A i \in 1..Len(representativeEmbeddings) : StoredSimilarity(i) < 70
    /\ found.rows = <<>>

(***************************************************************************)
(* C9: a retriever returns min(limit, n) distinct records, n the number of *)
(* stored records passing the threshold (limit 6 for content, 5 for        *)
(* representatives); no omitted passing record is more similar than a      *)
(* returned one; a single stored representative at similarity 0.82 is      *)
(* returned.                                                               *)
(***************************************************************************)
C9_TopKOfPassing ==
    found.table # "none" =>
        LET passing == {i \in 1..Len(FoundRows) : StoredSimilarity(i) > FoundThreshold}
        IN /\ Len(found.rows) = Min(FoundLimit, Cardinality(passing))
           /\ Cardinality(ReturnedPositions) = Len(found.rows)
           /\ ReturnedPositions \subseteq passing
           /\ \A i \in passing \ ReturnedPositions, j \in ReturnedPositions :
                  StoredSimilarity(i) <= StoredSimilarity(j)
           /\ (/\ found.table = "representative_embeddings"
               /\ Len(representativeEmbeddings) = 1
               /\ StoredSimilarity(1) = 82)
                  => ReturnedPositions = {1}

\* more records pass than the limit allows, of two different similarities
C9_Witness ==
    /\ found.table = "embeddings"
    /\ Cardinality({i \in 1..Len(embeddings) : StoredSimilarity(i) > 75}) = 7
    /\ Len(found.rows) = 6
    /\ found.rows[1].similarity > found.rows[6].similarity

(***************************************************************************)
(* C10: the returned records are in order of descending similarity, and    *)
(* two records of equal similarity are returned in insertion order.        *)
(***************************************************************************)
C10_DescendingThenInsertionOrder ==
    found.table # "none" =>
        \A k, l \in 1..Len(found.rows) :
            k < l =>
                \/ found.rows[k].similarity > found.rows[l].similarity
                \/ /\ found.rows[k].similarity = found.rows[l].similarity
                   /\ found.rows[k].pos < found.rows[l].pos

(***************************************************************************)
(* Chat route (app/api/chat/route.tsx, POST)                               *)
(*                                                                         *)
(* chatPc: "classify" (awaiting detectQueryTypes), "classified",           *)
(* "searching" (awaiting Promise.all(searchPromises)), "generated"         *)
(* (streamText called), "rejected" (the handler's promise rejected).       *)
(***************************************************************************)
\* a route that searches documents for the tag 'document' only
SelectedDocumentTagOnly(r, types) ==
    IF r = "representative"
    THEN "representative" \in Range(types)
    ELSE "document" \in Range(types)

\* if (queryTypes.includes(...)) searchPromises.push(...)
Selected(r, types) ==
    IF r = "representative"
    THEN "representative" \in Range(types)
    ELSE "bill" \in Range(types) \/ "document" \in Range(types)

StartSearches ==
    /\ chatPc = "classified"
    /\ searches' = [r \in Retrievers |->
                        IF Selected(r, queryTypes) THEN "pending" ELSE "none"]
    /\ invoked' = [r \in Retrievers |->
                       IF Selected(r, queryTypes) THEN invoked[r] + 1
                       ELSE invoked[r]]
    /\ chatPc' = "searching"
    /\ UNCHANGED <<modelCall, analysis, queryTypes, storeVars, found,
                   chatQuery, searchData, contextString, ingestVars>>

\* a retriever call resolves with the rows of its query
RetrieverReturns(r) ==
    /\ searches[r] = "pending"
    /\ \E tie \in TieOrders :
         searchData' = [searchData EXCEPT ![r] =
                            IF r = "representative"
                            THEN findRelevantRepresentatives(chatQuery, tie)
                            ELSE findRelevantContent(chatQuery, tie)]
    /\ searches' = [searches EXCEPT ![r] = "fulfilled"]
    /\ UNCHANGED <<classifyVars, storeVars, found, chatQuery, invoked,
                   contextString, ingestVars>>

\* a retriever call rejects: its embedding call or its database query threw
RetrieverFails(r) ==
    /\ searches[r] = "pending"
    /\ searches' = [searches EXCEPT ![r] = "rejected"]
    /\ UNCHANGED <<classifyVars, storeVars, found, chatQuery, invoked,
                   searchData, contextString, ingestVars>>

\* a retriever call never settles: neither call of it carries a timeout
RetrieverStalls(r) ==
    /\ searches[r] = "pending"
    /\ searches' = [searches EXCEPT ![r] = "stalled"]
    /\ UNCHANGED <<classifyVars, storeVars, found, chatQuery, invoked,
                   searchData, contextString, ingestVars>>

\* await Promise.all(searchPromises) rejects with the first rejection; POST
\* has no try/catch, so the handler rejects
PromiseAllRejects ==
    /\ chatPc = "searching"
    /\ \E r \in Retrievers : searches[r] = "rejected"
    /\ chatPc' = "rejected"
    /\ UNCHANGED <<modelCall, analysis, queryTypes, storeVars, found, searchVars,
                   ingestVars>>

\* one block of the context: an entry per returned row
Block(r, rows) == [k \in 1..Len(rows) |-> [kind |-> r, pos |-> rows[k].pos]]
Separator == <<[kind |-> "separator", pos |-> 0]>>

\* a formatter that pushes a part for every result, empty or not
FormatContextKeepEmpty(data) ==
    Block("representative", data["representative"])
        \o Separator \o Block("document", data["document"])

\* the loop over results and contextParts.join(separator); results are in
\* the order of searchPromises: representative, then document
FormatContext(data) ==
    LET parts == SelectSeq(<<Block("representative", data["representative"]),
                             Block("document", data["document"])>>,
                           LAMBDA b : Len(b) > 0)
    IN IF Len(parts) = 2 THEN parts[1] \o Separator \o parts[2]
       ELSE IF Len(parts) = 1 THEN parts[1]
       ELSE <<>>

\* a wait that ends with the first fulfilled promise (Promise.any)
PromiseAnyResolved ==
    \/ \E r \in Retrievers : searches[r] = "fulfilled"
    \/ \A r \in Retrievers : searches[r] = "none"

\* await Promise.all(searchPromises) resolves once every pushed promise has
PromiseAllResolved ==
    \A r \in Retrievers : searches[r] \in {"none", "fulfilled"}

\* the results are formatted and streamText is called with the context
FormatAndGenerate ==
    /\ chatPc = "searching"
    /\ PromiseAllResolved
    /\ contextString' = FormatContext(searchData)
    /\ chatPc' = "generated"
    /\ UNCHANGED <<modelCall, analysis, queryTypes, storeVars, found,
                   chatQuery, searches, invoked, searchData, ingestVars>>

(***************************************************************************)
(* Specification of one chat request over a small store.                   *)
(***************************************************************************)
ModelOutputs ==
    { <<"[", "representative", "]">>,
      <<"[", "bill", "]">>,
      <<"[", "document", "]">>,
      <<"[", "representative", ",", "bill", "]">>,
      <<"[", "bill", ",", "document", "]">>,
      <<"[", "other", "]">>,
      <<"representative", ",", "bill">> }

InitChat ==
    /\ chatPc = "classify"
    /\ modelCall \in {"returns", "throws"}
    /\ analysis \in IF modelCall = "throws" THEN {<<>>} ELSE ModelOutputs
    /\ queryTypes = <<>>
    /\ embeddings \in {MkRows(vs) : vs \in SeqsUpTo(Vecs, MaxChatRows)}
    /\ representativeEmbeddings \in {MkRows(vs) : vs \in SeqsUpTo(Vecs, MaxChatRows)}
    /\ found = NoneFound
    /\ chatQuery \in Queries
    /\ searches = [r \in Retrievers |-> "none"]
    /\ invoked = [r \in Retrievers |-> 0]
    /\ searchData = [r \in Retrievers |-> <<>>]
    /\ contextString = <<>>
    /\ NoIngest

NextChat ==
    \/ DetectQueryTypes
    \/ StartSearches
    \/ \E r \in Retrievers : RetrieverReturns(r)
    \/ \E r \in Retrievers : RetrieverFails(r)
    \/ \E r \in Retrievers : RetrieverStalls(r)
    \/ PromiseAllRejects
    \/ FormatAndGenerate

SpecChat == InitChat /\ [][NextChat]_vars

(***************************************************************************)
(* C4: if the classifier's generative-model call throws, the query is not  *)
(* failed: classification yields <<"document">> and the request goes on to *)
(* retrieval and generation.                                               *)
(***************************************************************************)
C4_ThrowingClassifierFallsBack ==
    (modelCall = "throws" /\ chatPc # "classify") =>
        /\ chatPc # "rejected"
        /\ queryTypes = <<"document">>

(***************************************************************************)
(* C5: when both retrievers are invoked and one of them fails, the request *)
(* does not fail.                                                          *)
(***************************************************************************)
C5_OneFailedRetrieverDoesNotFailRequest ==
    (\E r, o \in Retrievers :
        /\ searches[r] = "rejected"
        /\ searches[o] \in {"pending", "fulfilled"})
    => chatPc # "rejected"

(***************************************************************************)
(* C6: a chat request reaches the generation call even if a selected       *)
(* retriever never returns: as long as the request has neither generated   *)
(* nor been rejected, it can take a step.                                  *)
(***************************************************************************)
C6_StalledRetrieverDoesNotBlock ==
    (chatPc = "searching" /\ \A r \in Retrievers : searches[r] # "rejected")
    => ENABLED NextChat

(***************************************************************************)
(* C11: once the classifier has returned its tags, the representative      *)
(* retriever has been invoked exactly once if the tags contain             *)
(* 'representative' and not at all otherwise; the document retriever has   *)
(* been invoked exactly once if they contain 'bill' or 'document' (once    *)
(* even with both) and not at all otherwise; so at least one retriever is  *)
(* invoked.                                                                *)
(***************************************************************************)
HasTag(t) == \E k \in DOMAIN queryTypes : queryTypes[k] = t

SearchesStarted ==
    \/ chatPc \in {"searching", "generated"}
    \/ chatPc = "rejected" /\ modelCall = "returns"

C11_RetrieversInvokedByTag ==
    SearchesStarted =>
        /\ invoked["representative"] = (IF HasTag("representative") THEN 1 ELSE 0)
        /\ invoked["document"] =
               (IF HasTag("bill") \/ HasTag("document") THEN 1 ELSE 0)
        /\ \E r \in Retrievers : invoked[r] = 1

C11_Witness ==
    /\ chatPc = "generated"
    /\ queryTypes = <<"bill", "document">>
    /\ invoked = [r \in Retrievers |-> IF r = "document" THEN 1 ELSE 0]

(***************************************************************************)
(* C12: the context handed to generation holds one labeled block for each  *)
(* invoked retriever that returned at least one record, made of that       *)
(* retriever's records, and nothing for a retriever that returned none;    *)
(* the separator line occurs (blocks - 1) times when there is a block; the *)
(* context is empty when every invoked retriever returned nothing.         *)
(***************************************************************************)
EntriesOf(kind) ==
    {k \in DOMAIN contextString : contextString[k].kind = kind}

ContextBlocks ==
    {r \in Retrievers : invoked[r] > 0 /\ Len(searchData[r]) > 0}

C12_OneBlockPerNonEmptyResult ==
    chatPc = "generated" =>
        /\ \A r \in Retrievers :
              /\ Cardinality(EntriesOf(r)) =
                     (IF r \in ContextBlocks THEN Len(searchData[r]) ELSE 0)
              /\ \A k, l \in EntriesOf(r) : \A j \in k..l : j \in EntriesOf(r)
        /\ ContextBlocks # {} =>
              Cardinality(EntriesOf("separator")) = Cardinality(ContextBlocks) - 1
        /\ ContextBlocks = {} => contextString = <<>>

C12_Witness ==
    /\ chatPc = "generated"
    /\ invoked = [r \in Retrievers |-> 1]
    /\ Len(searchData["representative"]) = 0
    /\ Len(searchData["document"]) > 0
    /\ EntriesOf("separator") = {}

C12_WitnessTwoBlocks ==
    /\ chatPc = "generated"
    /\ ContextBlocks = Retrievers
    /\ Cardinality(EntriesOf("separator")) = 1

(***************************************************************************)
(* C13: the generation call is made only after the classifier has returned *)
(* and every selected retriever has returned; no retriever is started      *)
(* before the classifier has returned.                                     *)
(***************************************************************************)
C13_GenerationAfterFanIn ==
    /\ chatPc = "generated" =>
          /\ queryTypes # <<>>
          /\ \A r \in Retrievers : invoked[r] > 0 => searches[r] = "fulfilled"
    /\ chatPc = "classify" =>
          \A r \in Retrievers : invoked[r] = 0 /\ searches[r] = "none"

C13_Witness ==
    /\ chatPc = "generated"
    /\ \A r \in Retrievers : invoked[r] = 1 /\ searches[r] = "fulfilled"

(***************************************************************************)
(* Specification of the classifier alone: every model output up to         *)
(* MaxTokens tokens, then detectQueryTypes.                                *)
(***************************************************************************)
InitClassify ==
    /\ chatPc = "classify"
    /\ modelCall \in {"returns", "throws"}
    /\ analysis \in SeqsUpTo(Tokens, MaxTokens)
    /\ queryTypes = <<>>
    /\ embeddings = <<>>
    /\ representativeEmbeddings = <<>>
    /\ found = NoneFound
    /\ NoSearch
    /\ NoIngest

NextClassify == DetectQueryTypes

SpecClassify == InitClassify /\ [][NextClassify]_vars

(***************************************************************************)
(* The JSON arrays of at most MaxTokens tokens, built from the grammar     *)
(*   value ::= string | "[" "]" | "[" value ("," value)* "]"               *)
(* each with the texts of its top-level elements.                          *)
(***************************************************************************)
RECURSIVE JoinWithCommas(_)
JoinWithCommas(es) ==
    IF es = <<>> THEN <<>>
    ELSE IF Len(es) = 1 THEN es[1]
    ELSE es[1] \o <<",">> \o JoinWithCommas(Tail(es))

Bracket(es) == <<"[">> \o JoinWithCommas(es) \o <<"]">>

RECURSIVE JsonArrays(_)
JsonTexts(depth) ==
    {<<s>> : s \in StringTokens}
        \cup (IF depth = 0 THEN {} ELSE {a.text : a \in JsonArrays(depth)})
JsonArrays(depth) ==
    LET E == {t \in JsonTexts(depth - 1) : Len(t) <= MaxTokens - 2} IN
    {[text |-> Bracket(es), elems |-> es] :
        es \in {s \in SeqsUpTo(E, (MaxTokens - 1) \div 2) :
                    Len(Bracket(s)) <= MaxTokens}}

AllJsonArrays == JsonArrays(MaxTokens \div 2)

IsTagText(t) == Len(t) = 1 /\ t[1] \in ValidTypes
TagsOf(elems) == Flatten(SelectSeq(elems, IsTagText))

(***************************************************************************)
(* C7: detectQueryTypes returns exactly <<"document">> when the model's    *)
(* output is not valid JSON, is not an array, is an empty array or holds   *)
(* no valid tag; otherwise it returns the output's valid tags in their     *)
(* original order, the invalid elements dropped.  The result is never      *)
(* empty and holds only tags of the three-tag enumeration.                 *)
(***************************************************************************)
C7_FallbackOrValidTags ==
    chatPc = "classified" =>
        LET arrays == {a \in AllJsonArrays : a.text = analysis} IN
        /\ queryTypes # <<>>
        /\ \A i \in 1..Len(queryTypes) : queryTypes[i] \in ValidTypes
        /\ IF arrays = {}
           THEN queryTypes = <<"document">>
           ELSE \A a \in arrays :
                    queryTypes = IF TagsOf(a.elems) = <<>>
                                 THEN <<"document">>
                                 ELSE TagsOf(a.elems)

\* an array mixing an invalid element with a valid tag has been classified
C7_Witness ==
    /\ chatPc = "classified"
    /\ analysis = <<"[", "other", ",", "bill", "]">>
    /\ queryTypes = <<"bill">>

(***************************************************************************)
(* Ingestion (scripts/ingest-pdf.ts and scripts/batch-ingest.ts,           *)
(* ingestDocument).  The two functions differ only in the skip-existing    *)
(* check, which batch-ingest alone has.                                    *)
(*                                                                         *)
(* pc of a process: "check", "extract", "insertDocument", "split",         *)
(* "embed", "awaitBatch", "delay", "store", "derive", "insertDerived", and *)
(* the final "complete", "skipped", "failed".  steps records the steps the *)
(* current call has completed, started the embedding calls it has made (by *)
(* chunk), delays the inter-batch delays it has waited.                    *)
(***************************************************************************)
Files == {"a.pdf", "b.pdf"}
DocTypes == {"bill", "constitution", "election_law", "parliamentary_bulletin"}
Entries == {"ingest-pdf", "batch-ingest"}
BatchSize == 5

\* the number of chunks the splitter makes of a file's text
FileChunks(file) == IF file = "a.pdf" THEN BatchSize ELSE MaxChunks

\* the embedding the provider returns for a chunk
ChunkVec(file, c) == IF file = "a.pdf" THEN "a" ELSE IF c = 1 THEN "b" ELSE "c"

Final == {"idle", "complete", "skipped", "failed"}

otherVars == <<classifyVars, representativeEmbeddings, found, searchVars,
               chunkVars, scriptVars>>

Goto(w, pc) == [ing EXCEPT ![w].pc = pc]
Done(w, pc, step) ==
    [ing EXCEPT ![w].pc = pc, ![w].steps = Append(@, step)]

\* main / the batch loop calls ingestDocument(options)
BeginIngest(w) ==
    /\ ing[w].pc \in Final
    /\ runs < MaxRuns
    /\ \E entry \in Entries, file \in Files, type \in DocTypes, skip \in BOOLEAN :
         /\ entry = "ingest-pdf" => ~skip
         /\ ing' = [ing EXCEPT ![w] =
                 [IdleIngest EXCEPT
                     !.pc = IF entry = "batch-ingest" THEN "check" ELSE "extract",
                     !.entry = entry, !.file = file, !.type = type,
                     !.skipExisting = skip, !.run = runs + 1]]
    /\ runs' = runs + 1
    /\ UNCHANGED <<otherVars, embeddings, documents, bills, proceedings, embedFailed>>

\* a check that never finds the file
checkIfProcessedNever(fileName) == FALSE

\* checkIfProcessed: a document with this originalFileName exists
checkIfProcessed(fileName) ==
    \E k \in 1..Len(documents) : documents[k].originalFileName = fileName

\* if (options.skipExisting && await checkIfProcessed(fileName)) return {skipped: true}
SkipExistingCheck(w) ==
    /\ ing[w].pc = "check"
    /\ ing' = IF ing[w].skipExisting /\ checkIfProcessed(ing[w].file)
              THEN Goto(w, "skipped")
              ELSE Goto(w, "extract")
    /\ UNCHANGED <<otherVars, embeddings, documents, bills, proceedings, runs,
                   embedFailed>>

\* an ingestion that creates the document record before it reads the file
ExtractTextAfterInsert(w) ==
    /\ ing[w].pc = "extract"
    /\ documents' = Append(documents,
                       [id |-> ing[w].run, originalFileName |-> ing[w].file,
                        type |-> ing[w].type])
    /\ \/ ing' = Done(w, "insertDocument", "extract")
       \/ ing' = [ing EXCEPT ![w].pc = "failed", ![w].error = "extraction"]
    /\ UNCHANGED <<otherVars, embeddings, bills, proceedings, runs, embedFailed>>

\* const text = await extractTextFromPDF(filePath): returns or throws
ExtractText(w) ==
    /\ ing[w].pc = "extract"
    /\ \/ ing' = Done(w, "insertDocument", "extract")
       \/ ing' = [ing EXCEPT ![w].pc = "failed", ![w].error = "extraction"]
    /\ UNCHANGED <<otherVars, embeddings, documents, bills, proceedings, runs,
                   embedFailed>>

\* const [document] = await db.insert(documents).values({...}).returning()
InsertDocument(w) ==
    /\ ing[w].pc = "insertDocument"
    /\ documents' = Append(documents,
                       [id |-> ing[w].run, originalFileName |-> ing[w].file,
                        type |-> ing[w].type])
    /\ ing' = [ing EXCEPT ![w].pc = "split", ![w].docId = ing[w].run,
                          ![w].steps = Append(@, "persistDocument")]
    /\ UNCHANGED <<otherVars, embeddings, bills, proceedings, runs, embedFailed>>

\* const chunks = await splitter.createDocuments([text])
SplitChunks(w) ==
    /\ ing[w].pc = "split"
    /\ ing' = [ing EXCEPT ![w].pc = "embed", ![w].i = 0,
                          ![w].chunks = FileChunks(ing[w].file),
                          ![w].steps = Append(@, "chunk")]
    /\ UNCHANGED <<otherVars, embeddings, documents, bills, proceedings, runs,
                   embedFailed>>

\* a loop that embeds everything that is left in one batch
BatchRest(w) == (ing[w].i + 1)..ing[w].chunks

\* the chunks of the batch at index i: chunks.slice(i, i + batchSize)
Batch(w) == (ing[w].i + 1)..Min(ing[w].i + BatchSize, ing[w].chunks)

\* loop head: Promise.all(batch.map(chunk => generateEmbeddings(...))) starts
\* one embedding call per chunk of the batch
StartBatch(w) ==
    /\ ing[w].pc = "embed"
    /\ ing[w].i < ing[w].chunks
    /\ ing' = [ing EXCEPT ![w].pc = "awaitBatch", ![w].pending = Batch(w),
                          ![w].started =
                              @ \o [k \in 1..Cardinality(Batch(w)) |-> ing[w].i + k]]
    /\ UNCHANGED <<otherVars, embeddings, documents, bills, proceedings, runs,
                   embedFailed>>

\* one embedding call of the batch resolves
EmbedReturns(w, c) ==
    /\ ing[w].pc = "awaitBatch"
    /\ c \in ing[w].pending
    /\ ing' = [ing EXCEPT ![w].pending = @ \ {c}]
    /\ UNCHANGED <<otherVars, embeddings, documents, bills, proceedings, runs,
                   embedFailed>>

\* one embedding call of the batch rejects: Promise.all rejects and, nothing
\* catching it, so does ingestDocument
EmbedFails(w, c) ==
    /\ ing[w].pc = "awaitBatch"
    /\ c \in ing[w].pending
    /\ ing' = [ing EXCEPT ![w].pc = "failed", ![w].error = "embedding"]
    /\ embedFailed' = embedFailed \cup {ing[w].file}
    /\ UNCHANGED <<otherVars, embeddings, documents, bills, proceedings, runs>>

\* every call of the batch has resolved: embeddingsArray.push(...batchEmbeddings),
\* then the delay if another batch follows
BatchDone(w) ==
    /\ ing[w].pc = "awaitBatch"
    /\ ing[w].pending = {}
    /\ LET last == ing[w].i + BatchSize >= ing[w].chunks IN
       ing' = [ing EXCEPT
                  ![w].embeddingsArray =
                      @ \o [k \in 1..Cardinality(Batch(w)) |-> ing[w].i + k],
                  ![w].i = @ + BatchSize,
                  ![w].pc = IF last THEN "store" ELSE "delay",
                  ![w].steps = IF last THEN Append(@, "embed") ELSE @]
    /\ UNCHANGED <<otherVars, embeddings, documents, bills, proceedings, runs,
                   embedFailed>>

\* await new Promise(resolve => setTimeout(resolve, 1000))
DelayElapsed(w) ==
    /\ ing[w].pc = "delay"
    /\ ing' = [ing EXCEPT ![w].pc = "embed", ![w].delays = @ + 1]
    /\ UNCHANGED <<otherVars, embeddings, documents, bills, proceedings, runs,
                   embedFailed>>

\* an insert of the embedding rows one row per statement
StoreEmbeddingsRowByRow(w) ==
    /\ ing[w].pc = "store"
    /\ LET k == Cardinality({j \in 1..Len(embeddings) :
                               embeddings[j].resourceId = ing[w].docId}) + 1 IN
       /\ embeddings' = Append(embeddings,
              [resourceId |-> ing[w].docId,
               chunk |-> ing[w].embeddingsArray[k],
               vec |-> ChunkVec(ing[w].file, ing[w].embeddingsArray[k])])
       /\ ing' = IF k = Len(ing[w].embeddingsArray)
                 THEN Done(w, "derive", "persistEmbeddings")
                 ELSE ing
    /\ UNCHANGED <<otherVars, documents, bills, proceedings, runs, embedFailed>>

\* await db.insert(embeddingsTable).values(embeddingsArray.flat().map(...))
StoreEmbeddings(w) ==
    /\ ing[w].pc = "store"
    /\ embeddings' = embeddings \o
           [k \in 1..Len(ing[w].embeddingsArray) |->
               [resourceId |-> ing[w].docId,
                chunk |-> ing[w].embeddingsArray[k],
                vec |-> ChunkVec(ing[w].file, ing[w].embeddingsArray[k])]]
    /\ ing' = Done(w, "derive", "persistEmbeddings")
    /\ UNCHANGED <<otherVars, documents, bills, proceedings, runs, embedFailed>>

\* the summary calls a bill or bulletin can meet
SummaryCalls == {"ok", "request error", "timeout", "non-OK response"}

\* a summary function that lets the error of a failed call through
generateSummaryRethrows(call) ==
    IF call = "ok" THEN [threw |-> FALSE, text |-> "generated"]
    ELSE [threw |-> TRUE, text |-> "none"]

\* generateBillSummary / generateProceedingSummary: the whole body is in a
\* try whose catch returns the placeholder
generateSummary(call) ==
    IF call = "ok" THEN [threw |-> FALSE, text |-> "generated"]
    ELSE [threw |-> FALSE, text |-> "Summary generation failed."]

\* a type switch whose second branch is a plain else
DerivedKindElseProceeding(type) ==
    IF type = "bill" THEN "bill" ELSE "proceeding"

\* if (type === 'bill') ... else if (type === 'parliamentary_bulletin') ...
DerivedKind(type) ==
    IF type = "bill" THEN "bill"
    ELSE IF type = "parliamentary_bulletin" THEN "proceeding"
    ELSE "none"

\* createProceeding (lib/proceedings): persists the proceeding record
createProceeding(rows, rec) == Append(rows, rec)

\* type-specific processing, first half: const summary = await generate*Summary(text);
\* a type with no derived record goes straight to the end of ingestDocument
AwaitSummary(w) ==
    /\ ing[w].pc = "derive"
    /\ IF DerivedKind(ing[w].type) = "none"
       THEN ing' = Goto(w, "complete")
       ELSE \E call \in SummaryCalls :
              LET r == generateSummary(call) IN
              ing' = [ing EXCEPT
                         ![w].summaryCall = call,
                         ![w].summary = r.text,
                         ![w].pc = IF r.threw THEN "failed" ELSE "insertDerived",
                         ![w].error = IF r.threw THEN "summary" ELSE @]
    /\ UNCHANGED <<otherVars, embeddings, documents, bills, proceedings, runs,
                   embedFailed>>

\* type-specific processing, second half: the bill or proceeding row is
\* inserted; run names the call that inserted it
DerivedRecord(w) ==
    /\ ing[w].pc = "insertDerived"
    /\ LET rec == [title |-> ing[w].file, summary |-> ing[w].summary,
                   run |-> ing[w].run]
       IN IF DerivedKind(ing[w].type) = "bill"
          THEN bills' = Append(bills, rec) /\ UNCHANGED proceedings
          ELSE proceedings' = createProceeding(proceedings, rec) /\ UNCHANGED bills
    /\ ing' = Done(w, "complete", "derived")
    /\ UNCHANGED <<otherVars, embeddings, documents, runs, embedFailed>>

\* the steps of one ingestDocument call
IngestStep(w) ==
    \/ SkipExistingCheck(w)
    \/ ExtractText(w)
    \/ InsertDocument(w)
    \/ SplitChunks(w)
    \/ StartBatch(w)
    \/ \E c \in 1..MaxChunks : EmbedReturns(w, c)
    \/ \E c \in 1..MaxChunks : EmbedFails(w, c)
    \/ BatchDone(w)
    \/ DelayElapsed(w)
    \/ StoreEmbeddings(w)
    \/ AwaitSummary(w)
    \/ DerivedRecord(w)

Ingest(w) ==
    \/ BeginIngest(w)
    \/ IngestStep(w)

(***************************************************************************)
(* Specification of ingestion: one process ingesting up to MaxRuns files,  *)
(* one after the other, each through either script.                        *)
(***************************************************************************)
InitIngest ==
    /\ chatPc = "idle"
    /\ modelCall = "returns"
    /\ analysis = <<>>
    /\ queryTypes = <<>>
    /\ embeddings = <<>>
    /\ representativeEmbeddings = <<>>
    /\ found = NoneFound
    /\ NoSearch
    /\ NoIngest

NextIngest == Ingest(1)

SpecIngest == InitIngest /\ [][NextIngest]_vars

\* the rows of the store that belong to the document a call has created
DocumentRows(w) ==
    {k \in 1..Len(documents) : documents[k].id = ing[w].run}
ChunkRows(w) ==
    {k \in 1..Len(embeddings) : embeddings[k].resourceId = ing[w].run}
DocumentsNamed(file) ==
    {k \in 1..Len(documents) : documents[k].originalFileName = file}

IsPrefix(s, t) == Len(s) <= Len(t) /\ s = SubSeq(t, 1, Len(s))

\* the derived records a call has created
BillsOf(w) == {k \in 1..Len(bills) : bills[k].run = ing[w].run}
ProceedingsOf(w) ==
    {k \in 1..Len(proceedings) : proceedings[k].run = ing[w].run}

(***************************************************************************)
(* C1: once an ingestion in which an embedding call failed has terminated, *)
(* neither a Document row nor a Chunk-Embedding row of that document       *)
(* exists in the store.                                                    *)
(***************************************************************************)
C1_FailedEmbeddingLeavesNoRows ==
    \A w \in Workers :
        (ing[w].pc = "failed" /\ ing[w].error = "embedding") =>
            /\ DocumentRows(w) = {}
            /\ ChunkRows(w) = {}

(***************************************************************************)
(* C2: after an ingestion of a file has failed at the Embedding step, a    *)
(* later ingestion of the same file in which no call fails, with or        *)
(* without --skip-existing, completes and leaves exactly one Document of   *)
(* that original filename with one Chunk-Embedding row per chunk.          *)
(***************************************************************************)
C2_RetryAfterEmbeddingFailureSucceeds ==
    \A w \in Workers :
        (ing[w].pc \in {"complete", "skipped"} /\ ing[w].file \in embedFailed) =>
            /\ ing[w].pc = "complete"
            /\ Cardinality(DocumentsNamed(ing[w].file)) = 1
            /\ Cardinality(ChunkRows(w)) = FileChunks(ing[w].file)

(***************************************************************************)
(* C3: the steps of an ingestion happen in the order extract, chunk,       *)
(* embed, persist, derived-record creation: the Document row is written    *)
(* only after every chunk has been embedded, and before the document's     *)
(* Chunk-Embedding rows.                                                   *)
(***************************************************************************)
C3_StepOrder ==
    \A w \in Workers :
        /\ IsPrefix(ing[w].steps,
                    <<"extract", "chunk", "embed", "persistDocument",
                      "persistEmbeddings", "derived">>)
        /\ DocumentRows(w) # {} =>
               Len(ing[w].embeddingsArray) = FileChunks(ing[w].file)
        /\ ChunkRows(w) # {} => DocumentRows(w) # {}

(***************************************************************************)
(* C14: when the summary call of a bill or bulletin has failed (request    *)
(* error, timeout or non-OK response), ingestDocument does not fail: the   *)
(* Document row and every Chunk-Embedding row of the document remain, and  *)
(* the call completes having created the bill or proceeding record with    *)
(* the summary 'Summary generation failed.'.                               *)
(***************************************************************************)
C14_SummaryFailureIsDegradedSuccess ==
    \A w \in Workers :
        ing[w].summaryCall \in {"request error", "timeout", "non-OK response"} =>
            /\ ing[w].pc \in {"insertDerived", "complete"}
            /\ Cardinality(DocumentRows(w)) = 1
            /\ Cardinality(ChunkRows(w)) = FileChunks(ing[w].file)
            /\ ing[w].pc = "complete" =>
                  \/ /\ ing[w].type = "bill"
                     /\ \E k \in BillsOf(w) :
                            bills[k].summary = "Summary generation failed."
                  \/ /\ ing[w].type = "parliamentary_bulletin"
                     /\ \E k \in ProceedingsOf(w) :
                            proceedings[k].summary = "Summary generation failed."

C14_Witness ==
    \E w \in Workers :
        /\ ing[w].pc = "complete"
        /\ ing[w].summaryCall = "timeout"
        /\ ing[w].type = "parliamentary_bulletin"
        /\ ProceedingsOf(w) # {}

(***************************************************************************)
(* C15: a batch-ingest call with skipExisting for a file of which a        *)
(* Document row exists ends as skipped, with the store unchanged and       *)
(* without an extraction, embedding or summary call.                       *)
(***************************************************************************)
SkipCase(w) ==
    /\ ing[w].pc = "check"
    /\ ing[w].skipExisting
    /\ DocumentsNamed(ing[w].file) # {}

NoCallMade(r) ==
    /\ r.steps = <<>>
    /\ r.started = <<>>
    /\ r.summaryCall = "none"

C15_SkipExistingLeavesStoreUnchanged ==
    [][\A w \in Workers :
          (SkipCase(w) /\ ing'[w] # ing[w]) =>
              /\ ing'[w].pc = "skipped"
              /\ NoCallMade(ing'[w])
              /\ UNCHANGED <<documents, embeddings, bills, proceedings>>]_vars

C15_Witness ==
    \E w \in Workers :
        /\ ing[w].pc = "skipped"
        /\ DocumentsNamed(ing[w].file) # {}
        /\ DocumentRows(w) = {}

(***************************************************************************)
(* C16: the chunks of a document are embedded in consecutive batches of 5  *)
(* (the last may be smaller); the calls of a batch start only when every   *)
(* call of the batches before it has completed and one delay has been      *)
(* waited per earlier batch; at most 5 calls of the document are in flight;*)
(* every chunk is embedded exactly once; no delay follows the last batch.  *)
(***************************************************************************)
Upto(n) == [k \in 1..n |-> k]

C16_WitnessFullLastBatch ==
    \E w \in Workers :
        /\ ing[w].pc = "store"
        /\ ing[w].chunks = 5
        /\ ing[w].delays = 0

(***************************************************************************)
(* C19: when text extraction has failed, the ingestion has stopped with    *)
(* the error and has written no Document row, no Chunk-Embedding row and   *)
(* no derived record.                                                      *)
(***************************************************************************)
C19_FailedExtractionWritesNothing ==
    \A w \in Workers :
        (ing[w].pc = "failed" /\ ing[w].error = "extraction") =>
            /\ DocumentRows(w) = {}
            /\ ChunkRows(w) = {}
            /\ BillsOf(w) = {} /\ ProceedingsOf(w) = {}
            /\ ing[w].steps = <<>>

C19_Witness ==
    \E w \in Workers :
        /\ ing[w].pc = "failed"
        /\ ing[w].error = "extraction"
        /\ ing[w].run = 2
        /\ Len(documents) = 1

(***************************************************************************)
(* C20: a completed ingestion has created exactly one bill record if the   *)
(* type is 'bill', exactly one proceeding record if it is                  *)
(* 'parliamentary_bulletin', and neither for 'constitution' and            *)
(* 'election_law'; a derived record exists only once the document's        *)
(* Chunk-Embedding rows are stored.                                        *)
(***************************************************************************)
C20_DerivedRecordByType ==
    \A w \in Workers :
        /\ ing[w].pc = "complete" =>
              /\ Cardinality(BillsOf(w)) =
                     (IF ing[w].type = "bill" THEN 1 ELSE 0)
              /\ Cardinality(ProceedingsOf(w)) =
                     (IF ing[w].type = "parliamentary_bulletin" THEN 1 ELSE 0)
        /\ (BillsOf(w) # {} \/ ProceedingsOf(w) # {}) =>
              /\ ing[w].chunks > 0
              /\ Cardinality(ChunkRows(w)) = ing[w].chunks

C20_Witness ==
    \E w \in Workers :
        /\ ing[w].pc = "complete"
        /\ ing[w].type = "bill"
        /\ Cardinality(BillsOf(w)) = 1
        /\ \E k \in 1..Len(documents) :
              documents[k].type = "election_law" /\ documents[k].id # ing[w].run

(***************************************************************************)
(* The chunker: new RecursiveCharacterTextSplitter({chunkSize, chunkOverlap,*)
(* separators, keepSeparator: true}).createDocuments([text]), the langchain *)
(* splitter both ingestion scripts configure the same way.                  *)
(*                                                                         *)
(* A text is a sequence of runs [ch, n] of n equal characters; positions    *)
(* count from 1 and a chunk is the part [from, to] of the text.  ck.stack   *)
(* holds the calls of _splitText in progress, each with the separator it    *)
(* chose, the start pos of its next split and the start good of the splits  *)
(* it has collected for merging; ck.pos, ck.cur and ck.mto are mergeSplits' *)
(* next split, the start of its currentDoc and the end of its input.        *)
(***************************************************************************)
MaxTextLen == 4

ChunkSize == 1500
ChunkOverlap == 300
Separators ==
    << <<"\n", "\n">>, <<"\n">>, <<".">>, <<"!">>, <<"?">>, <<",">>, <<" ">>, <<>> >>

\* characters String.prototype.trim removes, among those of the texts below
Whitespace == {" ", "\n"}

RECURSIVE TextLen(_)
TextLen(t) == IF t = <<>> THEN 0 ELSE Head(t).n + TextLen(Tail(t))

RECURSIVE CharAt(_, _)
CharAt(t, p) ==
    IF p <= Head(t).n THEN Head(t).ch ELSE CharAt(Tail(t), p - Head(t).n)

\* sep occurs at position q of the string that ends at position to
MatchesAt(sep, q, to) ==
    /\ q + Len(sep) - 1 <= to
    /\ \A k \in 1..Len(sep) : CharAt(docText, q + k - 1) = sep[k]

\* text.includes(s), for the string [from, to]
Includes(from, to, sep) == \E q \in from..to : MatchesAt(sep, q, to)

\* _splitText: the first separator that is "" or occurs in the string, among
\* those from index lvl on
ChooseSeparator(from, to, lvl) ==
    LET fits(i) == Separators[i] = <<>> \/ Includes(from, to, Separators[i])
    IN CHOOSE i \in lvl..Len(Separators) :
           fits(i) /\ \A j \in lvl..(i - 1) : ~fits(j)

\* splitOnSeparator with keepSeparator: text.split(/(?=sep)/), or text.split("")
\* for the separator "": the last position of the split that starts at p
SplitEnd(sep, p, to) ==
    IF Separators[sep] = <<>> THEN p
    ELSE LET cuts == {q \in (p + 1)..to : MatchesAt(Separators[sep], q, to)}
         IN IF cuts = {} THEN to
            ELSE (CHOOSE q \in cuts : \A r \in cuts : q <= r) - 1

RECURSIVE TrimStart(_, _)
TrimStart(a, b) ==
    IF a > b \/ CharAt(docText, a) \notin Whitespace THEN a ELSE TrimStart(a + 1, b)

RECURSIVE TrimEnd(_, _)
TrimEnd(a, b) ==
    IF b < a \/ CharAt(docText, b) \notin Whitespace THEN b ELSE TrimEnd(a, b - 1)

\* joinDocs: docs.join("").trim(), null when nothing is left
joinDocs(a, b) ==
    IF TrimStart(a, b) > b THEN <<>>
    ELSE <<[from |-> TrimStart(a, b), to |-> TrimEnd(a, b)]>>

\* a call _splitText(text[from..to], separators.slice(lvl - 1))
NewFrame(from, to, lvl) ==
    [from |-> from, to |-> to, sep |-> ChooseSeparator(from, to, lvl),
     pos |-> from, good |-> from]

Top == ck.stack[Len(ck.stack)]
SetTop(f) == [ck.stack EXCEPT ![Len(ck.stack)] = f]

\* createDocuments([text]) calls splitText(text)
SplitText ==
    /\ ck.pc = "idle"
    /\ ck' = [ck EXCEPT !.pc = "scan",
                        !.stack = <<NewFrame(1, TextLen(docText), 1)>>]
    /\ UNCHANGED <<docText, classifyVars, storeVars, found, searchVars,
                   documents, bills, proceedings, ing, runs, embedFailed,
                   scriptVars>>

\* mergeSplits is entered for the collected splits [good, pos - 1]
BeginMerge(f) ==
    [ck EXCEPT !.pc = "merge", !.pos = f.good, !.cur = f.good,
               !.mto = f.pos - 1,
               !.stack = SetTop([f EXCEPT !.good = f.pos])]

\* for (const s of splits): a split shorter than chunkSize is collected; a
\* longer one first has the collected splits merged, then is split by the
\* remaining separators (or kept whole when none remains)
Scan ==
    /\ ck.pc = "scan"
    /\ Top.pos <= Top.to
    /\ LET f == Top
           e == SplitEnd(f.sep, f.pos, f.to)
       IN ck' = IF e - f.pos + 1 < ChunkSize
                THEN [ck EXCEPT !.stack = SetTop([f EXCEPT !.pos = e + 1])]
                ELSE IF f.good < f.pos
                THEN BeginMerge(f)
                ELSE IF Separators[f.sep] = <<>>
                THEN [ck EXCEPT
                         !.docs = Append(@, [from |-> f.pos, to |-> e]),
                         !.stack = SetTop([f EXCEPT !.pos = e + 1, !.good = e + 1])]
                ELSE [ck EXCEPT
                         !.stack = Append(SetTop([f EXCEPT !.pos = e + 1,
                                                          !.good = e + 1]),
                                          NewFrame(f.pos, e, f.sep + 1))]
    /\ UNCHANGED <<docText, classifyVars, storeVars, found, searchVars,
                   documents, bills, proceedings, ing, runs, embedFailed,
                   scriptVars>>

\* after the loop: if (goodSplits.length) merge them; return finalChunks
ScanEnd ==
    /\ ck.pc = "scan"
    /\ Top.pos > Top.to
    /\ ck' = IF Top.good < Top.pos
             THEN BeginMerge(Top)
             ELSE [ck EXCEPT
                      !.stack = SubSeq(@, 1, Len(@) - 1),
                      !.pc = IF Len(ck.stack) = 1 THEN "done" ELSE "scan"]
    /\ UNCHANGED <<docText, classifyVars, storeVars, found, searchVars,
                   documents, bills, proceedings, ing, runs, embedFailed,
                   scriptVars>>

\* a merge that keeps nothing of the chunk it has just emitted
KeepPoppingAll(total, len) == total > 0

\* mergeSplits, the while condition: keep on popping while more than the
\* overlap is left, or the next split still does not fit
KeepPopping(total, len) ==
    \/ total > ChunkOverlap
    \/ total + len > ChunkSize /\ total > 0

\* mergeSplits, for (const d of splits): when d does not fit, currentDoc is
\* emitted (and then popped from the front); otherwise d is pushed
MergeNext ==
    /\ ck.pc = "merge"
    /\ ck.pos <= ck.mto
    /\ LET e == SplitEnd(Top.sep, ck.pos, Top.to)
           len == e - ck.pos + 1
           total == ck.pos - ck.cur
       IN ck' = IF total + len > ChunkSize /\ total > 0
                THEN [ck EXCEPT !.docs = @ \o joinDocs(ck.cur, ck.pos - 1),
                                !.pc = "pop"]
                ELSE [ck EXCEPT !.pos = e + 1]
    /\ UNCHANGED <<docText, classifyVars, storeVars, found, searchVars,
                   documents, bills, proceedings, ing, runs, embedFailed,
                   scriptVars>>

\* one turn of the while loop (currentDoc.shift()), or its exit followed by
\* currentDoc.push(d)
Pop ==
    /\ ck.pc = "pop"
    /\ LET e == SplitEnd(Top.sep, ck.pos, Top.to)
           len == e - ck.pos + 1
           total == ck.pos - ck.cur
       IN ck' = IF KeepPopping(total, len)
                THEN [ck EXCEPT !.cur = SplitEnd(Top.sep, ck.cur, Top.to) + 1]
                ELSE [ck EXCEPT !.pos = e + 1, !.pc = "merge"]
    /\ UNCHANGED <<docText, classifyVars, storeVars, found, searchVars,
                   documents, bills, proceedings, ing, runs, embedFailed,
                   scriptVars>>

\* mergeSplits, after the loop: what is left of currentDoc is emitted
MergeEnd ==
    /\ ck.pc = "merge"
    /\ ck.pos > ck.mto
    /\ ck' = [ck EXCEPT !.docs = @ \o joinDocs(ck.cur, ck.mto), !.pc = "scan"]
    /\ UNCHANGED <<docText, classifyVars, storeVars, found, searchVars,
                   documents, bills, proceedings, ing, runs, embedFailed,
                   scriptVars>>

(***************************************************************************)
(* Specification of the chunker: every text of up to MaxTextLen characters *)
(* and two texts of 4000 characters (one with no separator in it; one of   *)
(* two pages of 2000 and 1999 characters joined by a newline, as           *)
(* extractTextFromPDF joins pages).                                        *)
(***************************************************************************)
Chars == {"x", " ", "\n", "."}

ShortTexts ==
    {[k \in 1..Len(cs) |-> [ch |-> cs[k], n |-> 1]] : cs \in SeqsUpTo(Chars, MaxTextLen)}

PlainText == <<[ch |-> "x", n |-> 4000]>>

\* the pages PDFLoader returns for a file of two pages
TwoPages == << <<[ch |-> "x", n |-> 2000]>>, <<[ch |-> "x", n |-> 1999]>> >>

\* extractTextFromPDF: docs.map(d => d.pageContent).join('\n')
RECURSIVE extractTextFromPDF(_)
extractTextFromPDF(pages) ==
    IF pages = <<>> THEN <<>>
    ELSE IF Len(pages) = 1 THEN pages[1]
    ELSE pages[1] \o <<[ch |-> "\n", n |-> 1]>> \o extractTextFromPDF(Tail(pages))

TwoPageText == extractTextFromPDF(TwoPages)

\* the pages a text was extracted from
PagesOf(t) == IF t = TwoPageText THEN TwoPages ELSE <<t>>

\* the metadata createDocuments([text]) gives a chunk: no metadatas argument
\* is passed, so there is no pageNumber (0 stands for undefined)
CreatedMetadata(doc) == [pageNumber |-> 0]

\* value || 1
OrOne(value) == IF value = 0 THEN 1 ELSE value

\* metadata: { pageNumber: chunk.metadata.pageNumber || 1, ... } of every
\* chunk, as generateEmbeddings returns it and the store keeps it
ChunkMetadata ==
    /\ ck.pc = "done"
    /\ ck' = [ck EXCEPT
                 !.pc = "embedded",
                 !.metadata =
                     [k \in 1..Len(ck.docs) |->
                        [pageNumber |->
                            OrOne(CreatedMetadata(ck.docs[k]).pageNumber)]]]
    /\ UNCHANGED <<docText, classifyVars, storeVars, found, searchVars,
                   documents, bills, proceedings, ing, runs, embedFailed,
                   scriptVars>>

InitChunk ==
    /\ chatPc = "idle"
    /\ modelCall = "returns"
    /\ analysis = <<>>
    /\ queryTypes = <<>>
    /\ embeddings = <<>>
    /\ representativeEmbeddings = <<>>
    /\ found = NoneFound
    /\ NoSearch
    /\ documents = <<>>
    /\ bills = <<>>
    /\ proceedings = <<>>
    /\ ing = [w \in Workers |-> IdleIngest]
    /\ runs = 0
    /\ embedFailed = {}
    /\ docText \in ShortTexts \cup {PlainText, TwoPageText}
    /\ ck = IdleSplitter
    /\ NoScripts

NextChunk ==
    \/ SplitText
    \/ Scan
    \/ ScanEnd
    \/ MergeNext
    \/ Pop
    \/ MergeEnd
    \/ ChunkMetadata

SpecChunk == InitChunk /\ [][NextChunk]_vars

\* the number of characters of a chunk, and of those two chunks share
ChunkLen(d) == d.to - d.from + 1
Overlap(d, e) == d.to - e.from + 1

(***************************************************************************)
(* C17: the chunks tile the text: with the overlap of consecutive chunks   *)
(* removed, their concatenation is the text, whitespace and separators     *)
(* included; that is, the first chunk starts at the first character, the   *)
(* last ends at the last, each chunk starts no later than just after the   *)
(* chunk before it ends, and shares at most 300 characters with it.        *)
(***************************************************************************)
C17_ChunksTileText ==
    ck.pc = "done" =>
        LET d == ck.docs
            n == TextLen(docText)
        IN IF n = 0 THEN d = <<>>
           ELSE /\ d # <<>>
                /\ d[1].from = 1
                /\ d[Len(d)].to = n
                /\ \A k \in 1..(Len(d) - 1) :
                      /\ d[k + 1].from <= d[k].to + 1
                      /\ Overlap(d[k], d[k + 1]) <= 300

PageStart(pages, p) ==
    IF p = 1 THEN 1 ELSE TextLen(extractTextFromPDF(SubSeq(pages, 1, p - 1))) + 2

PageEnd(pages, p) == PageStart(pages, p) + TextLen(pages[p]) - 1

\* the pages that hold a character of the chunk
PagesUnder(pages, doc) ==
    {p \in 1..Len(pages) :
        doc.from <= PageEnd(pages, p) /\ PageStart(pages, p) <= doc.to}

C23_PageNumberIsSourcePage ==
    (ck.pc = "embedded" /\ Len(PagesOf(docText)) > 1) =>
        \A k \in 1..Len(ck.docs) :
            ck.metadata[k].pageNumber \in PagesUnder(PagesOf(docText), ck.docs[k])

(***************************************************************************)
(* The foreign keys of the two embedding tables.                           *)
(* representative_embeddings.representative_id references representatives  *)
(* (id) ON DELETE cascade; embeddings.resource_id references documents(id)  *)
(* the same way.  Rows of both tables name their parent in resourceId.      *)
(***************************************************************************)
MaxStoreRows == 2

RepIds == {1, 2}
DocIds == {1, 2}

DocumentIds == {documents[k].id : k \in 1..Len(documents)}

\* a foreign key that leaves the referencing rows where they are
OnDeleteNoCascade(rows, id) == rows

\* ON DELETE cascade: the rows that reference the deleted parent go with it
OnDeleteCascade(rows, id) == SelectSeq(rows, LAMBDA row : row.resourceId # id)

\* FOREIGN KEY ... REFERENCES: an insert must name an existing parent
ForeignKey(parents, id) == id \in parents

\* DELETE FROM representatives WHERE id = r
DeleteRepresentative(r) ==
    /\ r \in representatives
    /\ representatives' = representatives \ {r}
    /\ representativeEmbeddings' = OnDeleteCascade(representativeEmbeddings, r)
    /\ UNCHANGED <<classifyVars, embeddings, found, searchVars, documents,
                   bills, proceedings, ing, runs, embedFailed, chunkVars, gen,
                   geo, batch>>

\* DELETE FROM documents WHERE id = d
DeleteDocument(d) ==
    /\ d \in DocumentIds
    /\ documents' = SelectSeq(documents, LAMBDA row : row.id # d)
    /\ embeddings' = OnDeleteCascade(embeddings, d)
    /\ UNCHANGED <<classifyVars, representativeEmbeddings, found, searchVars,
                   bills, proceedings, ing, runs, embedFailed, chunkVars,
                   scriptVars>>

\* db.insert(representativeEmbeddings).values({representativeId: r, ...});
\* the statement is rejected when r names no representative
InsertRepresentativeEmbedding(r, vec) ==
    /\ Len(representativeEmbeddings) < MaxStoreRows
    /\ representativeEmbeddings' =
           IF ForeignKey(representatives, r)
           THEN Append(representativeEmbeddings,
                       [resourceId |-> r, chunk |-> 1, vec |-> vec])
           ELSE representativeEmbeddings
    /\ UNCHANGED <<classifyVars, embeddings, found, searchVars, ingestVars>>

\* db.insert(embeddingsTable).values({resourceId: d, ...}); the statement is
\* rejected when d names no document
InsertEmbedding(d, vec) ==
    /\ Len(embeddings) < MaxStoreRows
    /\ embeddings' =
           IF ForeignKey(DocumentIds, d)
           THEN Append(embeddings, [resourceId |-> d, chunk |-> 1, vec |-> vec])
           ELSE embeddings
    /\ UNCHANGED <<classifyVars, representativeEmbeddings, found, searchVars,
                   ingestVars>>

(***************************************************************************)
(* Specification of the store: two documents and two representatives      *)
(* exist; embedding rows are inserted and parents deleted in any order.    *)
(***************************************************************************)
InitStore ==
    /\ chatPc = "idle"
    /\ modelCall = "returns"
    /\ analysis = <<>>
    /\ queryTypes = <<>>
    /\ embeddings = <<>>
    /\ representativeEmbeddings = <<>>
    /\ found = NoneFound
    /\ NoSearch
    /\ documents = <<[id |-> 1, originalFileName |-> "a.pdf", type |-> "bill"],
                      [id |-> 2, originalFileName |-> "b.pdf", type |-> "bill"]>>
    /\ bills = <<>>
    /\ proceedings = <<>>
    /\ ing = [w \in Workers |-> IdleIngest]
    /\ runs = 0
    /\ embedFailed = {}
    /\ NoChunking
    /\ representatives = RepIds
    /\ gen = IdleGenerator
    /\ geo = IdleGeocoder
    /\ batch = IdleMain

NextStore ==
    \/ \E r \in RepIds : DeleteRepresentative(r)
    \/ \E d \in DocIds : DeleteDocument(d)
    \/ \E r \in RepIds, vec \in {"a"} : InsertRepresentativeEmbedding(r, vec)
    \/ \E d \in DocIds, vec \in {"a"} : InsertEmbedding(d, vec)

SpecStore == InitStore /\ [][NextStore]_vars

(***************************************************************************)
(* C21: every embedding row references an existing parent, and deleting a  *)
(* parent removes exactly the embedding rows that reference it: deleting a *)
(* document leaves exactly the Chunk-Embedding rows of the other documents *)
(* and every Representative-Embedding row; deleting a representative       *)
(* leaves exactly the Representative-Embedding rows of the others and      *)
(* every Chunk-Embedding row.                                              *)
(***************************************************************************)
RowsNotOf(rows, id) == {k \in 1..Len(rows) : rows[k].resourceId # id}

\* rows2 is rows without the rows of parent id, in the same order
IsRowsWithout(rows2, rows, id) ==
    /\ Len(rows2) = Cardinality(RowsNotOf(rows, id))
    /\ \A k \in 1..Len(rows2) :
          \E j \in RowsNotOf(rows, id) :
              /\ rows2[k] = rows[j]
              /\ Cardinality({i \in RowsNotOf(rows, id) : i < j}) = k - 1

C21_CascadeDeleteExact ==
    /\ [](/\ \A k \in 1..Len(embeddings) :
                \E j \in 1..Len(documents) :
                    documents[j].id = embeddings[k].resourceId
          /\ \A k \in 1..Len(representativeEmbeddings) :
                representativeEmbeddings[k].resourceId \in representatives)
    /\ [][/\ \A r \in representatives \ representatives' :
                /\ IsRowsWithout(representativeEmbeddings',
                                 representativeEmbeddings, r)
                /\ embeddings' = embeddings
          /\ \A d \in DocumentIds \ DocumentIds' :
                /\ IsRowsWithout(embeddings', embeddings, d)
                /\ representativeEmbeddings' = representativeEmbeddings]_vars

C21_Witness ==
    /\ representatives = {2}
    /\ Len(representativeEmbeddings) = 1
    /\ DocumentIds = {1}
    /\ Len(embeddings) = 2

(***************************************************************************)
(* The two ingestion scripts from their command lines: parseArgs and main  *)
(* of ingest-pdf, and parseArgs, getPDFFiles and main of batch-ingest.     *)
(* batch is the state of the script's main; the i-th ingestDocument call   *)
(* of a run is ing[i].                                                     *)
(***************************************************************************)
\* values of --type: the four document types and one that is none of them
ArgTypes == DocTypes \cup {"memo"}

\* names a directory can hold
DirEntries == Files \cup {"notes.txt"}
SortedNames == <<"a.pdf", "b.pdf", "notes.txt">>

\* getPDFFiles: the .pdf names of the directory, sorted
getPDFFiles(dir) ==
    SelectSeq(SortedNames, LAMBDA name : name \in dir /\ name \in Files)

\* pdfFiles.slice(0, options.limit) when a positive limit is given
ApplyLimit(files, limit) ==
    IF limit > 0 /\ limit < Len(files) THEN SubSeq(files, 1, limit) ELSE files

\* const validTypes = [...]; validTypes.includes(options.type)
ValidType(type) == type \in DocTypes

\* main calls ingestDocument for the next file
CallIngest(w, entry, file, type, skip) ==
    [ing EXCEPT ![w] =
        [IdleIngest EXCEPT
            !.pc = IF entry = "batch-ingest" THEN "check" ELSE "extract",
            !.entry = entry, !.file = file, !.type = type,
            !.skipExisting = skip, !.run = runs + 1]]

scriptFrame ==
    <<classifyVars, storeVars, found, searchVars, documents, bills,
      proceedings, embedFailed, chunkVars, representatives, gen, geo>>

\* ingest-pdf: parseArgs exits with 1 on a missing title, a missing or
\* invalid type or a missing file; otherwise main awaits ingestDocument
IngestPdfMain ==
    /\ batch.pc = "idle"
    /\ \E hasTitle \in BOOLEAN, type \in ArgTypes \cup {"none"},
          file \in Files \cup {"missing.pdf"} :
         IF hasTitle /\ type # "none" /\ ValidType(type) /\ file \in Files
         THEN /\ batch' = [batch EXCEPT !.pc = "await", !.entry = "ingest-pdf",
                                        !.pdfFiles = <<file>>, !.type = type,
                                        !.i = 1, !.attempts = <<file>>]
              /\ ing' = CallIngest(1, "ingest-pdf", file, type, FALSE)
              /\ runs' = runs + 1
         ELSE /\ batch' = [batch EXCEPT !.pc = "exited", !.entry = "ingest-pdf",
                                        !.type = type, !.exit = 1]
              /\ UNCHANGED <<ing, runs>>
    /\ UNCHANGED scriptFrame

\* ingest-pdf main: process.exit(0) after ingestDocument, process.exit(1)
\* in the catch
IngestPdfExit ==
    /\ batch.pc = "await"
    /\ batch.entry = "ingest-pdf"
    /\ ing[1].pc \in {"complete", "failed"}
    /\ batch' = [batch EXCEPT
                    !.pc = "exited",
                    !.processed = IF ing[1].pc = "complete" THEN 1 ELSE 0,
                    !.failed = IF ing[1].pc = "failed" THEN 1 ELSE 0,
                    !.exit = IF ing[1].pc = "failed" THEN 1 ELSE 0]
    /\ UNCHANGED <<ing, runs, scriptFrame>>

\* batch-ingest main up to the loop: parseArgs (any --type is taken),
\* getPDFFiles, the empty-directory exit, --limit and the --dry-run branch
BatchMain ==
    /\ batch.pc = "idle"
    /\ \E dir \in SUBSET DirEntries, type \in ArgTypes, skip \in BOOLEAN,
          dry \in BOOLEAN, limit \in 0..1 :
         LET pdfFiles == getPDFFiles(dir)
             args == [batch EXCEPT !.entry = "batch-ingest", !.type = type,
                                   !.skipExisting = skip, !.dryRun = dry]
         IN  batch' =
               IF Len(pdfFiles) = 0
               THEN [args EXCEPT !.pc = "exited", !.exit = 1]
               ELSE IF dry
               THEN [args EXCEPT !.pc = "exited", !.exit = 0,
                                 !.pdfFiles = ApplyLimit(pdfFiles, limit)]
               ELSE [args EXCEPT !.pc = "loop", !.i = 1,
                                 !.pdfFiles = ApplyLimit(pdfFiles, limit)]
    /\ UNCHANGED <<ing, runs, scriptFrame>>

\* for (i ...) { try { result = await ingestDocument({...}) ...
BatchCall ==
    /\ batch.pc = "loop"
    /\ batch.i <= Len(batch.pdfFiles)
    /\ batch' = [batch EXCEPT !.pc = "await",
                              !.attempts = Append(@, batch.pdfFiles[batch.i])]
    /\ ing' = CallIngest(batch.i, "batch-ingest", batch.pdfFiles[batch.i],
                         batch.type, batch.skipExisting)
    /\ runs' = runs + 1
    /\ UNCHANGED scriptFrame

\* a main whose loop has no catch: the rejection reaches main().catch
AfterFailureFatal(b) == [b EXCEPT !.pc = "exited", !.failed = @ + 1, !.exit = 1]

\* } catch (error) { failed++ }  and on to the next file
AfterFailure(b) == [b EXCEPT !.pc = "loop", !.failed = @ + 1, !.i = @ + 1]

\* if (result.skipped) skipped++ else processed++ / catch: failed++
BatchResult ==
    /\ batch.pc = "await"
    /\ batch.entry = "batch-ingest"
    /\ ing[batch.i].pc \in {"complete", "skipped", "failed"}
    /\ batch' =
          CASE ing[batch.i].pc = "skipped" ->
                  [batch EXCEPT !.pc = "loop", !.skipped = @ + 1, !.i = @ + 1]
            [] ing[batch.i].pc = "complete" ->
                  [batch EXCEPT !.pc = "loop", !.processed = @ + 1, !.i = @ + 1]
            [] OTHER -> AfterFailure(batch)
    /\ UNCHANGED <<ing, runs, scriptFrame>>

\* process.exit(failed > 0 ? 1 : 0)
BatchExit ==
    /\ batch.pc = "loop"
    /\ batch.i > Len(batch.pdfFiles)
    /\ batch' = [batch EXCEPT !.pc = "exited",
                              !.exit = IF batch.failed > 0 THEN 1 ELSE 0]
    /\ UNCHANGED <<ing, runs, scriptFrame>>

(***************************************************************************)
(* Specification of one run of either script, on an empty store or on the  *)
(* store an earlier run has left after ingesting a.pdf as a constitution.  *)
(***************************************************************************)
InitScript ==
    /\ chatPc = "idle"
    /\ modelCall = "returns"
    /\ analysis = <<>>
    /\ queryTypes = <<>>
    /\ representativeEmbeddings = <<>>
    /\ found = NoneFound
    /\ NoSearch
    /\ NoChunking
    /\ NoScripts
    /\ bills = <<>>
    /\ proceedings = <<>>
    /\ ing = [w \in Workers |-> IdleIngest]
    /\ embedFailed = {}
    /\ \/ /\ documents = <<>>
          /\ embeddings = <<>>
          /\ runs = 0
       \/ /\ documents = <<[id |-> 1, originalFileName |-> "a.pdf",
                             type |-> "constitution"]>>
          /\ embeddings = [k \in 1..FileChunks("a.pdf") |->
                              [resourceId |-> 1, chunk |-> k,
                               vec |-> ChunkVec("a.pdf", k)]]
          /\ runs = 1

NextScript ==
    \/ IngestPdfMain
    \/ IngestPdfExit
    \/ BatchMain
    \/ BatchCall
    \/ BatchResult
    \/ BatchExit
    \/ \E w \in Workers : IngestStep(w)

SpecScript == InitScript /\ [][NextScript]_vars

(***************************************************************************)
(* C22: every Document row persisted by either entry point has a type in   *)
(* the closed set {bill, constitution, election_law,                       *)
(* parliamentary_bulletin}, and a run given any other type writes no       *)
(* Document and no Chunk-Embedding row.                                    *)
(***************************************************************************)
C22_DocumentTypeClosed ==
    /\ \A k \in 1..Len(documents) : documents[k].type \in DocTypes
    /\ (batch.pc # "idle" /\ ~ValidType(batch.type)) =>
          \A w \in Workers :
              ing[w].run > 0 => DocumentRows(w) = {} /\ ChunkRows(w) = {}

\* the half of C22 that the code keeps: ingest-pdf validates --type
C22_IngestPdfValidates ==
    batch.entry = "ingest-pdf" =>
        /\ \A k \in 1..Len(documents) : documents[k].type \in DocTypes
        /\ ~ValidType(batch.type) =>
              batch.pc = "exited" /\ batch.exit = 1 /\ ing[1].run = 0

(***************************************************************************)
(* C25: in a batch-ingest run that finds at least one PDF file and is not  *)
(* a dry run, ingestDocument is called on the selected files in sorted     *)
(* order, each once, never two at a time, a failed file is followed by     *)
(* the next one, and at exit processed + skipped + failed is the number of *)
(* selected files and the exit code is non-zero exactly when failed > 0.   *)
(***************************************************************************)
Rank(name) == CHOOSE k \in 1..Len(SortedNames) : SortedNames[k] = name

IsSorted(files) ==
    \A k, l \in 1..Len(files) : k < l => Rank(files[k]) < Rank(files[l])

Running == {w \in Workers : ing[w].pc \notin Final}

C25_BatchLoopOrder ==
    batch.entry = "batch-ingest" =>
        /\ IsSorted(batch.pdfFiles)
        /\ IsPrefix(batch.attempts, batch.pdfFiles)
        /\ Cardinality(Running) <= 1

C25_BatchTotalsAndExit ==
    (batch.entry = "batch-ingest" /\ batch.pc = "exited") =>
        /\ batch.attempts = batch.pdfFiles
        /\ batch.processed + batch.skipped + batch.failed = Len(batch.pdfFiles)
        /\ batch.exit # 0 <=> batch.failed > 0

C25_WitnessSkipped ==
    /\ batch.entry = "batch-ingest"
    /\ batch.pc = "exited"
    /\ batch.skipped = 1
    /\ batch.processed = 1
    /\ batch.exit = 0

(***************************************************************************)
(* C28: a record whose similarity is exactly the threshold (0.75 for       *)
(* content, 0.70 for representatives) is not returned: every returned      *)
(* record is strictly above the threshold.                                 *)
(***************************************************************************)
AtThreshold == {i \in 1..Len(FoundRows) : StoredSimilarity(i) = FoundThreshold}

C28_ThresholdIsStrict ==
    found.table # "none" =>
        /\ AtThreshold \cap ReturnedPositions = {}
        /\ \A k \in 1..Len(found.rows) : found.rows[k].similarity > FoundThreshold

\* a content query that left out a stored record at exactly 0.75 and
\* returned another
C28_Witness ==
    /\ found.table = "embeddings"
    /\ FoundThreshold = 75
    /\ AtThreshold # {}
    /\ found.rows # <<>>

\* the same for a representative query and 0.70
C28_WitnessRepresentatives ==
    /\ found.table = "representative_embeddings"
    /\ FoundThreshold = 70
    /\ AtThreshold # {}
    /\ found.rows # <<>>

(***************************************************************************)
(* The geocoding script (scripts/geocode-constituencies.ts) and service    *)
(* (lib/services/geocoding.ts).  Time is counted in ticks, TicksPerSecond  *)
(* to the second; geo.now is the clock and geo.sent the times at which     *)
(* geocodeLocation sent a request to Nominatim.  A response can arrive in  *)
(* the tick of its request.                                                *)
(***************************************************************************)
MaxTicks == 6
MaxReps == 2
TicksPerSecond == 2
GeocodeDelayMs == 1000

\* what Nominatim answers: a result of high accuracy, another result, none
Responses == {"high", "low", "null"}

\* the representatives the script selects, by the fields the strategies test
GeoReps == [district : BOOLEAN, province : BOOLEAN]

geoFrame ==
    <<classifyVars, storeVars, found, searchVars, documents, bills,
      proceedings, ing, runs, embedFailed, chunkVars, representatives, gen,
      batch>>

\* geocodeConstituency: is strategy s tried for this representative
Applies(s, rep) ==
    CASE s = 1 -> rep.district /\ rep.province
      [] s = 2 -> rep.district /\ rep.province
      [] s = 3 -> rep.province
      [] OTHER -> TRUE

\* the first strategy from s on that is tried
NextStrategy(s, rep) == CHOOSE t \in s..4 : Applies(t, rep) /\ \A u \in s..(t - 1) : ~Applies(u, rep)

\* geocodeConstituency: does strategy s return with this answer
Returns(s, response) ==
    CASE s = 1 -> response = "high"
      [] s = 4 -> TRUE
      [] OTHER -> response # "null"

\* main: select the representatives without coordinates; exit(0) if none
GeocodeMain ==
    /\ geo.pc = "idle"
    /\ \E reps \in SeqsUpTo(GeoReps, MaxReps) :
         geo' = IF reps = <<>>
                THEN [geo EXCEPT !.pc = "exited", !.exit = 0]
                ELSE [geo EXCEPT !.pc = "strategy", !.reps = reps, !.i = 1,
                                 !.strategy = 1]
    /\ UNCHANGED geoFrame

\* geocodeLocation: https.get(url, ...)
SendRequest ==
    /\ geo.pc = "strategy"
    /\ geo' = [geo EXCEPT !.pc = "request",
                          !.strategy = NextStrategy(geo.strategy, geo.reps[geo.i]),
                          !.sent = Append(@, geo.now)]
    /\ UNCHANGED geoFrame

\* the request resolves (null on an error or an empty result);
\* geocodeConstituency returns or goes on to the next strategy at once
Response ==
    /\ geo.pc = "request"
    /\ \E response \in Responses :
         geo' = IF Returns(geo.strategy, response)
                THEN [geo EXCEPT !.pc = "delay", !.result = response,
                                 !.delayFrom = geo.now]
                ELSE [geo EXCEPT !.pc = "strategy", !.strategy = @ + 1]
    /\ UNCHANGED geoFrame

\* time passes while the script waits for a response or a timer
Tick ==
    /\ geo.pc \in {"request", "delay"}
    /\ geo.now < MaxTicks
    /\ geo' = [geo EXCEPT !.now = @ + 1]
    /\ UNCHANGED geoFrame

\* geocodeWithRateLimit: await delay(delayMs) is over; main updates the
\* row (the update can throw) and counts, then takes the next representative
GeocodeDelayElapsed ==
    /\ geo.pc = "delay"
    /\ (geo.now - geo.delayFrom) * 1000 >= GeocodeDelayMs * TicksPerSecond
    /\ \E updateThrows \in BOOLEAN :
         LET ok == geo.result # "null" /\ ~updateThrows
             next == [geo EXCEPT
                         !.geocoded = IF ok THEN @ + 1 ELSE @,
                         !.failed = IF ok THEN @ ELSE @ + 1,
                         !.updated = IF ok THEN @ \cup {geo.i} ELSE @,
                         !.i = @ + 1, !.strategy = 1, !.result = "none"]
         IN geo' = IF geo.i < Len(geo.reps)
                   THEN [next EXCEPT !.pc = "strategy"]
                   ELSE [next EXCEPT !.pc = "exited",
                                     !.exit = IF next.failed > 0 THEN 1 ELSE 0]
    /\ UNCHANGED geoFrame

InitGeocode == InitIngest

NextGeocode ==
    \/ GeocodeMain
    \/ SendRequest
    \/ Response
    \/ Tick
    \/ GeocodeDelayElapsed

SpecGeocode == InitGeocode /\ [][NextGeocode]_vars

(***************************************************************************)
(* C24: any two consecutive requests to Nominatim are at least 1 second    *)
(* apart, the successive requests of the fallback strategies for one       *)
(* representative included.                                                *)
(***************************************************************************)
C24_RequestsOneSecondApart ==
    \A k \in 1..(Len(geo.sent) - 1) :
        geo.sent[k + 1] - geo.sent[k] >= TicksPerSecond

(***************************************************************************)
(* Two batch-ingest processes running at once, both with --skip-existing:  *)
(* each is at some ingestDocument call of its loop.                        *)
(***************************************************************************)
Instances == {1, 2}

\* an instance's loop calls ingestDocument for its next file
BeginConcurrent(w) ==
    /\ ing[w].pc \in Final
    /\ runs < MaxRuns
    /\ \E file \in Files, type \in {"constitution", "bill"} :
         ing' = CallIngest(w, "batch-ingest", file, type, TRUE)
    /\ runs' = runs + 1
    /\ UNCHANGED <<otherVars, embeddings, documents, bills, proceedings,
                   embedFailed>>

InitConcurrent == InitIngest

NextConcurrent == \E w \in Instances : BeginConcurrent(w) \/ IngestStep(w)

SpecConcurrent == InitConcurrent /\ [][NextConcurrent]_vars

(***************************************************************************)
(* C26: with several instances running concurrently with --skip-existing,  *)
(* there is at most one Document row per original filename.                *)
(***************************************************************************)
C26_OneDocumentPerFileName ==
    \A file \in Files : Cardinality(DocumentsNamed(file)) <= 1

\* the same holds of one instance alone, to which the check is adequate
C26_Sequential ==
    (\A w \in Workers : w # 1 => ing[w].run = 0) => C26_OneDocumentPerFileName

(***************************************************************************)
(* Ingestion interleaved with the content retriever of the chat route.     *)
(***************************************************************************)
InitObserve == InitIngest

\* batch-ingest, run without --skip-existing, calls ingestDocument on its
\* next file; ingest-pdf's ingestDocument is the same less the check
BeginObserve(w) ==
    /\ ing[w].pc \in Final
    /\ runs < MaxRuns
    /\ \E file \in Files, type \in {"constitution", "bill"} :
         ing' = CallIngest(w, "batch-ingest", file, type, FALSE)
    /\ runs' = runs + 1
    /\ UNCHANGED <<otherVars, embeddings, documents, bills, proceedings,
                   embedFailed>>

NextObserve == BeginObserve(1) \/ IngestStep(1) \/ FindRelevantContent

SpecObserve == InitObserve /\ [][NextObserve]_vars

(***************************************************************************)
(* C27: in every state, during ingestion and at every retriever call       *)
(* included, each Document has either none of its Chunk-Embedding rows or  *)
(* all of them, one per chunk of its text.                                 *)
(***************************************************************************)
RowsOfDocument(id) == {k \in 1..Len(embeddings) : embeddings[k].resourceId = id}

C27_NoneOrAllChunkRows ==
    \A d \in 1..Len(documents) :
        LET rows == RowsOfDocument(documents[d].id) IN
        \/ rows = {}
        \/ {embeddings[k].chunk : k \in rows}
               = 1..FileChunks(documents[d].originalFileName)
           /\ Cardinality(rows) = FileChunks(documents[d].originalFileName)

\* a retriever call has returned rows of the first document while the second
\* call, past its Document insert, has its embeddings in hand but not stored
C27_Witness ==
    /\ found.table = "embeddings"
    /\ found.rows # <<>>
    /\ Len(documents) = 2
    /\ ing[1].pc = "store"
    /\ RowsOfDocument(documents[1].id) # {}
    /\ RowsOfDocument(documents[2].id) = {}

(***************************************************************************)
(* The representative-embedding generator                                  *)
(* (scripts/generate-representative-embeddings.ts).  gen.reps is           *)
(* repsToProcess, gen.pending the representatives of the current batch     *)
(* whose generateEmbedding call is out, gen.inserting those whose insert   *)
(* is out, gen.errors the representatives pushed on errors, gen.inserted   *)
(* the representatives the run has inserted a row for.                     *)
(***************************************************************************)
MaxGenReps == 6
MaxGenRuns == 2
GenBatchSize == 5

genFrame ==
    <<classifyVars, embeddings, found, searchVars, documents, bills,
      proceedings, ing, runs, embedFailed, chunkVars, representatives, geo,
      batch>>

\* db.select().from(representatives), in id order
RECURSIVE SelectReps(_)
SelectReps(ids) ==
    IF ids = {} THEN <<>>
    ELSE LET least == CHOOSE r \in ids : \A o \in ids : r <= o
         IN <<least>> \o SelectReps(ids \ {least})

\* new Set(existing.map(e => e.representativeId))
ExistingIds ==
    {representativeEmbeddings[k].resourceId :
        k \in 1..Len(representativeEmbeddings)}

\* a generator that takes every representative
RepsToProcessAll(reps, existingIds) == reps

\* reps.filter(rep => !existingIds.has(rep.id))
RepsToProcess(reps, existingIds) ==
    SelectSeq(reps, LAMBDA rep : rep \notin existingIds)

\* an error that ends the run
OnErrorAbort(g, rep) ==
    [g EXCEPT !.pc = "exited", !.errors = @ \cup {rep}, !.exit = 1,
              !.pending = {}, !.inserting = {}]

\* catch (error) { errors.push({rep, error}) } inside the mapped function
OnError(g, rep) ==
    [g EXCEPT !.errors = @ \cup {rep}, !.pending = @ \ {rep},
              !.inserting = @ \ {rep}]

\* generateRepresentativeEmbeddings up to the loop
GenerateMain ==
    /\ gen.pc \in {"idle", "exited"}
    /\ gen.run < MaxGenRuns
    /\ LET todo == RepsToProcess(SelectReps(representatives), ExistingIds)
           g == [IdleGenerator EXCEPT !.run = gen.run + 1, !.reps = todo,
                                      !.existingIds = ExistingIds]
       IN gen' = IF todo = <<>>
                 THEN [g EXCEPT !.pc = "exited", !.exit = 0]
                 ELSE [g EXCEPT !.pc = "batch"]
    /\ UNCHANGED <<representativeEmbeddings, genFrame>>

\* const batch = repsToProcess.slice(i, i + BATCH_SIZE);
\* Promise.allSettled(batch.map(async rep => ...)) starts every call
GenStartBatch ==
    /\ gen.pc = "batch"
    /\ gen' = [gen EXCEPT
                  !.pc = "await",
                  !.pending = {gen.reps[k] :
                      k \in (gen.i + 1)..Min(gen.i + GenBatchSize, Len(gen.reps))}]
    /\ UNCHANGED <<representativeEmbeddings, genFrame>>

\* await generateEmbedding(content) returns
GenEmbedReturns(rep) ==
    /\ gen.pc = "await"
    /\ rep \in gen.pending
    /\ gen' = [gen EXCEPT !.pending = @ \ {rep}, !.inserting = @ \cup {rep}]
    /\ UNCHANGED <<representativeEmbeddings, genFrame>>

\* await generateEmbedding(content) throws
GenEmbedFails(rep) ==
    /\ gen.pc = "await"
    /\ rep \in gen.pending
    /\ gen' = OnError(gen, rep)
    /\ UNCHANGED <<representativeEmbeddings, genFrame>>

\* await db.insert(representativeEmbeddings).values({...}); processed++
GenInsert(rep) ==
    /\ gen.pc = "await"
    /\ rep \in gen.inserting
    /\ ForeignKey(representatives, rep)
    /\ representativeEmbeddings' =
           Append(representativeEmbeddings,
                  [resourceId |-> rep, chunk |-> 1, vec |-> "a"])
    /\ gen' = [gen EXCEPT !.inserting = @ \ {rep}, !.processed = @ + 1,
                          !.inserted = @ \cup {rep}]
    /\ UNCHANGED genFrame

\* the insert throws
GenInsertFails(rep) ==
    /\ gen.pc = "await"
    /\ rep \in gen.inserting
    /\ gen' = OnError(gen, rep)
    /\ UNCHANGED <<representativeEmbeddings, genFrame>>

\* Promise.allSettled has settled; if (i + BATCH_SIZE < length) await delay
GenBatchSettled ==
    /\ gen.pc = "await"
    /\ gen.pending = {}
    /\ gen.inserting = {}
    /\ gen' = IF gen.i + GenBatchSize < Len(gen.reps)
              THEN [gen EXCEPT !.pc = "delay"]
              ELSE [gen EXCEPT !.pc = "summary"]
    /\ UNCHANGED <<representativeEmbeddings, genFrame>>

\* the delay is over: i += BATCH_SIZE
GenDelayElapsed ==
    /\ gen.pc = "delay"
    /\ gen' = [gen EXCEPT !.pc = "batch", !.i = @ + GenBatchSize]
    /\ UNCHANGED <<representativeEmbeddings, genFrame>>

\* process.exit(errors.length > 0 ? 1 : 0)
GenerateExit ==
    /\ gen.pc = "summary"
    /\ gen' = [gen EXCEPT !.pc = "exited",
                          !.exit = IF gen.errors # {} THEN 1 ELSE 0]
    /\ UNCHANGED <<representativeEmbeddings, genFrame>>

(***************************************************************************)
(* Specification of the generator: up to MaxGenReps representatives, none  *)
(* with an embedding row yet, and up to MaxGenRuns runs one after another. *)
(***************************************************************************)
InitGenerate ==
    /\ chatPc = "idle"
    /\ modelCall = "returns"
    /\ analysis = <<>>
    /\ queryTypes = <<>>
    /\ embeddings = <<>>
    /\ representativeEmbeddings = <<>>
    /\ found = NoneFound
    /\ NoSearch
    /\ NoChunking
    /\ documents = <<>>
    /\ bills = <<>>
    /\ proceedings = <<>>
    /\ ing = [w \in Workers |-> IdleIngest]
    /\ runs = 0
    /\ embedFailed = {}
    /\ \E n \in 0..MaxGenReps : representatives = 1..n
    /\ gen = IdleGenerator
    /\ geo = IdleGeocoder
    /\ batch = IdleMain

NextGenerate ==
    \/ GenerateMain
    \/ GenStartBatch
    \/ \E rep \in 1..MaxGenReps : GenEmbedReturns(rep)
    \/ \E rep \in 1..MaxGenReps : GenEmbedFails(rep)
    \/ \E rep \in 1..MaxGenReps : GenInsert(rep)
    \/ \E rep \in 1..MaxGenReps : GenInsertFails(rep)
    \/ GenBatchSettled
    \/ GenDelayElapsed
    \/ GenerateExit

SpecGenerate == InitGenerate /\ [][NextGenerate]_vars

(***************************************************************************)
(* C29: after any sequence of generator runs, one after another, every     *)
(* representative has at most one embedding row; a run inserts rows only   *)
(* for representatives that had none when it started; and a run started    *)
(* when every representative has a row inserts nothing and exits with 0.   *)
(***************************************************************************)
RowsOfRepresentative(rep) ==
    {k \in 1..Len(representativeEmbeddings) :
        representativeEmbeddings[k].resourceId = rep}

C29_WitnessNothingToDo ==
    /\ gen.run = 2
    /\ representatives # {}
    /\ gen.existingIds = representatives
    /\ gen.pc = "exited"

(***************************************************************************)
(* C30: a failed embedding call or insert for one representative does not  *)
(* keep the others, of the same batch or a later one, from being           *)
(* processed: at the end every selected representative is either inserted  *)
(* or in errors, processed + errors is the number selected, and the exit   *)
(* code is non-zero exactly when there are errors.                         *)
(***************************************************************************)
SelectedReps == {gen.reps[k] : k \in 1..Len(gen.reps)}

====
